---- MODULE Spec2Model ----
(***************************************************************************)
(* Apollo11Simulation of src/apolo-11/apolo_11.py: the record buffer       *)
(* (simulation_data), the generation loop of simulate(), the five reports, *)
(* and the active ("devices") and backup ("backups") areas.                *)
(*                                                                         *)
(* simulate() is a process whose position is pc; every step between two    *)
(* positions is one action.  The file system, the clock and the random     *)
(* draws are the environment: a draw is an \E over the drawn set, an I/O   *)
(* call either succeeds or raises one of IOErrors.                         *)
(*                                                                         *)
(* Around it: the thread that calls get_simulation_data_copy() under       *)
(* simulation_data_mutex, the timer of DashboardWindow that starts the     *)
(* simulation thread, and generate_random_data of the first draft of the   *)
(* program, src/Apolo-11.py.                                               *)
(***************************************************************************)
EXTENDS Integers, Sequences, FiniteSets, TLC

(* ---------------- bounds of the model ---------------- *)
\* largest max of a configured num_files_range
MaxFiles == 2
\* number of simulate() calls in one behaviour
MaxBatches == 2
\* largest value of the wall clock (seconds)
MaxClock == 1
\* number of I/O calls that raise in one behaviour
MaxFaults == 1
\* largest seed of str hashes a process is started with (the first has seed 0)
MaxSeed == 1
\* how many of the real missions random.choice draws (UNKN is always drawn)
MaxMission == 1
\* how many of the device types random.choice draws
MaxDeviceType == 1
\* how many of the device states random.choice draws (the last ones of the list)
MaxDeviceState == 2
\* the range of the end-to-end case of claim C1: (5, 5)
E2EFiles == 5

\* a sub-batch size that is not capped at the remaining total
Uncapped(a, b) == b

Min(a, b) == IF a < b THEN a ELSE b

(* ---------------- Apollo11Simulation.__init__ ---------------- *)
missions == <<"ORBONE", "CLNM", "TMRS", "GALXONE", "UNKN">>
device_types == <<"satellite", "spaceship", "spacesuit", "space_vehicle">>
device_states == <<"excellent", "good", "warning", "faulty", "killed", "unknown">>

\* the values random.choice(self.missions) is let to return
DrawnMissions ==
    {missions[k] : k \in 1..Min(MaxMission, Len(missions) - 1)}
        \cup {missions[Len(missions)]}
\* the values random.choice(self.device_types) is let to return
DrawnDeviceTypes == {device_types[k] : k \in 1..Min(MaxDeviceType, Len(device_types))}
\* the values random.choice(self.device_states) is let to return
DrawnDeviceStates ==
    {device_states[k] :
        k \in (Len(device_states) - Min(MaxDeviceState, Len(device_states)) + 1)
                ..Len(device_states)}

\* the values of num_files_range a configuration may hold: 0 <= min <= max
Ranges == {r \in (0..MaxFiles) \X (0..MaxFiles) : r[1] <= r[2]}
\* random.randint(a, b): the inclusive range
\* a draw that can be 0 whatever the lower limit
randint_from_zero(a, b) == 0..b

randint(a, b) == a..b

(* ---------------- exceptions ---------------- *)
\* what an I/O call (makedirs, open, listdir, to_csv, shutil.move) may raise;
\* "OSError" stands for every OSError that is neither of the two subclasses
\* (ENOSPC, IsADirectoryError, NotADirectoryError, FileExistsError, ...)
IOErrors == {"FileNotFoundError", "PermissionError", "OSError"}
\* except (FileNotFoundError, PermissionError) of simulate
SimulateCaught == {"FileNotFoundError", "PermissionError"}
\* except (FileNotFoundError, PermissionError, pd.errors.EmptyDataError) of generate_reports
ReportsCaught == {"FileNotFoundError", "PermissionError", "EmptyDataError"}
\* except OSError of move_files_to_backup: OSError and its subclasses
MoveCaught == {"FileNotFoundError", "PermissionError", "OSError"}

(* ---------------- state ---------------- *)
VARIABLES
    simulation_data,             \* self.simulation_data: the buffer, a sequence of records
    devices,                     \* data/devices: file name -> file
    backups,                     \* data/backups: file name -> file
    reports,                     \* data/reports: file name -> report
    now,                         \* datetime.now(), in seconds
    pc,                          \* position of the thread that runs simulate()
    num_files_range,             \* argument of the running simulate()
    total_files_to_generate,     \* local of simulate
    total_files_to_generate_log, \* local of simulate
    files_created_counter,       \* local of simulate
    num_files,                   \* local of simulate: size of the sub-batch
    file_number,                 \* local of simulate: i of the for loop
    data,                        \* local of simulate: the record of this iteration
    files_moved_count,           \* local of move_files_to_backup
    outcome,                     \* how the last simulate() ended, as its caller sees it
    log,                         \* the logging records of the running/last simulate()
    batches,                     \* number of simulate() calls so far
    faults,                      \* number of I/O calls that raised so far
    persisted_count,             \* history: number of files written by simulate so far
    wid_at_start,                \* history: persisted_count when this simulate() started
    batch_records,               \* history: <<file_number, record, mission drawn>> of each generate_random_data of this batch
    backup_before,               \* history: number of backup files when move_files_to_backup started
    report_writes,               \* history: the report files this simulate() wrote, in order
    simulation_data_mutex,       \* self.simulation_data_mutex: the thread that holds it
    snapshot,                    \* the list get_simulation_data_copy() returned to the observer
    observer_pc,                 \* position of the thread that calls get_simulation_data_copy()
    inside,                      \* number of executions of simulate() under way
    timer_fired_inside,          \* history: a timeout of the timer came while simulate() was running
    hash_seed,                   \* the seed of str hashes of the running process (PYTHONHASHSEED)
    draft_record,                \* the record generate_random_data of src/Apolo-11.py returned last
    result                       \* what the last simulate() handed to its caller: <<>> for
                                 \* None, <<v>> for a value or an exception v

locals == <<num_files_range, total_files_to_generate, total_files_to_generate_log,
            files_created_counter, num_files, file_number, data>>
history == <<persisted_count, wid_at_start, batch_records, backup_before, report_writes>>
files == <<devices, backups>>
aside == <<timer_fired_inside, draft_record, hash_seed>>
gui == <<observer_pc, aside>>
running == <<inside, result>>
vars == <<simulation_data, devices, backups, reports, now, pc, locals,
          files_moved_count, outcome, log, batches, faults, history,
          simulation_data_mutex, snapshot, gui, running>>

\* None of Python
None == <<>>
NoData == [filename |-> ""]

(* ---------------- generate_hash, generate_random_data ---------------- *)
\* strftime("%d%m%y%H%M%S") of the clock: one string per second
strftime(t) == ToString(t)

\* hash(hash_string): Python's str hash, a function of the string and of
\* the seed the process was started with; kept symbolic (the application of
\* the seeded hash to the string), so no two strings collide
PyHash(s) == <<hash_seed, s>>

\* a generate_hash that puts the file name into the hashed string
generate_hash_of_file(d) ==
    PyHash(d.date \o d.mission \o d.device_type \o d.device_status \o d.filename)

generate_hash(d) ==
    PyHash(d.date \o d.mission \o d.device_type \o d.device_status)

\* f"{file_number:04d}"
Pad4(n) ==
    IF n < 10 THEN "000" \o ToString(n)
    ELSE IF n < 100 THEN "00" \o ToString(n)
    ELSE IF n < 1000 THEN "0" \o ToString(n)
    ELSE ToString(n)

\* a generate_random_data that computes the hash of every record
generate_random_data_hashed(n, t, mission, dtype, dstate) ==
    LET d == [date |-> strftime(t),
              mission |-> IF mission # "UNKN" THEN mission
                          ELSE "UNKNOWN-" \o strftime(t),
              device_type |-> IF mission = "UNKN" THEN "unknown" ELSE dtype,
              device_status |-> IF mission = "UNKN" THEN "unknown" ELSE dstate,
              hash |-> None,
              filename |-> "APL" \o mission \o "-" \o Pad4(n) \o ".log"]
    IN  [d EXCEPT !.hash = generate_hash(d)]

\* the record generate_random_data(file_number) returns at time t when the
\* three random.choice calls return mission, dtype and dstate
generate_random_data(n, t, mission, dtype, dstate) ==
    LET d == [date |-> strftime(t),
              mission |-> IF mission # "UNKN" THEN mission
                          ELSE "UNKNOWN-" \o strftime(t),
              device_type |-> IF mission = "UNKN" THEN "unknown" ELSE dtype,
              device_status |-> IF mission = "UNKN" THEN "unknown" ELSE dstate,
              hash |-> None,
              filename |-> "APL" \o mission \o "-" \o Pad4(n) \o ".log"]
    IN  IF mission # "UNKN" THEN [d EXCEPT !.hash = generate_hash(d)] ELSE d

(* ---------------- src/Apolo-11.py, the first draft of the program ---------------- *)
\* no record returned yet
NoRecord == [taken |-> FALSE]

\* the record generate_random_data(mission_arg) of the draft returns at time
\* t when the three random.choice calls return mission, dtype and dstate:
\* the three fields are drawn whatever the argument, and the hash is set by
\* the argument, the mission simulate loops over
draft_generate_random_data(mission_arg, t, mission, dtype, dstate) ==
    LET d == [date |-> strftime(t),
              mission |-> mission,
              device_type |-> dtype,
              device_status |-> dstate,
              hash |-> None]
    IN  IF mission_arg # "UNKN" THEN [d EXCEPT !.hash = generate_hash(d)] ELSE d

\* the elements of a tuple
Elements(t) == {t[k] : k \in DOMAIN t}

(* ---------------- file system helpers ---------------- *)
\* os.listdir
listdir(dir) == DOMAIN dir
\* open(filename, "w") followed by write: creates the file or replaces it
WriteFile(dir, name, f) == [x \in (DOMAIN dir) \cup {name} |-> IF x = name THEN f ELSE dir[x]]
\* the directory without the files of names
RemoveFiles(dir, names) == [x \in (DOMAIN dir) \ names |-> dir[x]]
\* shutil.move of the files of names from src into dst: an existing file of
\* the same name in dst is replaced (os.rename)
MoveFiles(src, dst, names) ==
    [x \in (DOMAIN dst) \cup names |-> IF x \in names THEN src[x] ELSE dst[x]]

\* a directory that holds no file
EmptyDir == [x \in {} |-> x]

\* one logging record
LogRecord(level, msg, arg) == [level |-> level, msg |-> msg, arg |-> arg]

(* ---------------- Python lists and references ---------------- *)
\* a reference to a list, as its holder sees it: the items of the list, and
\* whether it is the very list object self.simulation_data is bound to
NoSnapshot == [taken |-> FALSE, aliased |-> FALSE, items |-> <<>>]

\* returning self.simulation_data itself: a second name of the buffer
list_alias(l) == [taken |-> TRUE, aliased |-> TRUE, items |-> l]

\* self.simulation_data.copy(): a new list object of the same items
list_copy(l) == [taken |-> TRUE, aliased |-> FALSE, items |-> l]

\* self.simulation_data.append(d), seen through the reference ref: append
\* changes the list object in place
SeenAppend(ref, d) ==
    IF ref.aliased THEN [ref EXCEPT !.items = Append(@, d)] ELSE ref

\* self.simulation_data = [], seen through the reference ref: the name is
\* bound to a new list and the old list object keeps its items
SeenRebind(ref) == [ref EXCEPT !.aliased = FALSE]

(* ---------------- what simulate hands to its caller ---------------- *)
\* the completion status of the simulate() that wrote the logging records l:
\* failed when generation was aborted, partial when a report or a relocation
\* failed, success otherwise
CompletionStatus(l) ==
    IF \A k \in 1..Len(l) : l[k].level # "ERROR" THEN "success"
    ELSE IF \E k \in 1..Len(l) : l[k].msg = "Total files generated in this simulation"
         THEN "partial"
         ELSE "failed"

\* a simulate() that hands its completion status to the caller
simulate_returns_status(status) == <<status>>

\* the value of the call simulate(...) when the batch ended with status:
\* simulate has no return statement
simulate_returns(status) == None

Init ==
    /\ simulation_data = <<>>
    /\ devices = EmptyDir
    /\ backups = EmptyDir
    /\ reports = EmptyDir
    /\ now = 0
    /\ pc = "idle"
    /\ num_files_range = <<0, 0>>
    /\ total_files_to_generate = 0
    /\ total_files_to_generate_log = 0
    /\ files_created_counter = 0
    /\ num_files = 0
    /\ file_number = 0
    /\ data = NoData
    /\ files_moved_count = 0
    /\ outcome = "none"
    /\ log = <<>>
    /\ batches = 0
    /\ faults = 0
    /\ persisted_count = 0
    /\ wid_at_start = 0
    /\ batch_records = <<>>
    /\ backup_before = 0
    /\ report_writes = <<>>
    /\ simulation_data_mutex = "free"
    /\ snapshot = NoSnapshot
    /\ observer_pc = "out"
    /\ inside = 0
    /\ timer_fired_inside = FALSE
    /\ draft_record = NoRecord
    /\ hash_seed = 0
    /\ result = <<"pending">>

(* ---------------- simulate: entry and generation loop ---------------- *)
\* simulate is left, by return or by an exception: its locals are gone
LocalsGone ==
    /\ num_files_range' = <<0, 0>>
    /\ total_files_to_generate' = 0
    /\ total_files_to_generate_log' = 0
    /\ files_created_counter' = 0
    /\ num_files' = 0
    /\ file_number' = 0
    /\ data' = NoData
    /\ batch_records' = <<>>
    /\ report_writes' = <<>>
    /\ wid_at_start' = persisted_count
    /\ inside' = inside - 1

\* an exception e reaches the try statement of simulate: the except clause
\* logs it and simulate returns, or e leaves simulate and, no caller of the
\* repository catching anything, ends the process
SimulateExcept(e) ==
    /\ IF e \in SimulateCaught
       THEN /\ pc' = "idle"
            /\ outcome' = "returned"
            /\ log' = Append(log, LogRecord("ERROR", "An error occurred during simulation", e))
            /\ result' = simulate_returns(CompletionStatus(log'))
       ELSE /\ pc' = "crashed"
            /\ outcome' = "raised"
            /\ log' = log
            /\ result' = <<e>>
    /\ LocalsGone

\* the environment lets one more I/O call raise
Fault == faults < MaxFaults /\ faults' = faults + 1

\* simulate(num_files_range), up to the first test of the while loop
simulate_call(range) ==
    /\ pc = "idle"
    /\ batches < MaxBatches
    /\ batches' = batches + 1
    /\ \E total \in randint(range[1], range[2]) :
          /\ total_files_to_generate' = total
          /\ total_files_to_generate_log' = total
    /\ num_files_range' = range
    /\ files_created_counter' = 0
    /\ pc' = "while"
    /\ outcome' = "running"
    /\ log' = <<LogRecord("INFO", "Simulation is running...", "")>>
    /\ files_moved_count' = 0
    /\ backup_before' = 0
    /\ inside' = inside + 1
    /\ result' = <<"pending">>
    /\ UNCHANGED <<simulation_data, files, reports, now, num_files, file_number, data,
                   faults, persisted_count, wid_at_start, batch_records, report_writes,
                   simulation_data_mutex, snapshot, gui>>

\* simulate(num_files_range) when os.makedirs(devices_folder) raises e
simulate_makedirs_fails(range, e) ==
    /\ pc = "idle"
    /\ batches < MaxBatches
    /\ batches' = batches + 1
    /\ Fault
    /\ IF e \in SimulateCaught
       THEN /\ pc' = "idle"
            /\ outcome' = "returned"
            /\ log' = <<LogRecord("ERROR", "An error occurred during simulation", e)>>
            /\ result' = simulate_returns(CompletionStatus(log'))
       ELSE /\ pc' = "crashed"
            /\ outcome' = "raised"
            /\ log' = <<>>
            /\ result' = <<e>>
    /\ files_moved_count' = 0
    /\ backup_before' = 0
    /\ UNCHANGED <<simulation_data, files, reports, now, locals, persisted_count,
                   wid_at_start, batch_records, report_writes,
                   simulation_data_mutex, snapshot, gui, inside>>

\* while total_files_to_generate > 0: num_files = min(total, randint(...));
\* after the loop, the two logging calls
while_loop ==
    /\ pc = "while"
    /\ IF total_files_to_generate > 0
       THEN /\ \E r \in randint(num_files_range[1], num_files_range[2]) :
                 num_files' = Min(total_files_to_generate, r)
            /\ file_number' = 1
            /\ pc' = "for"
            /\ log' = log
       ELSE /\ pc' = "file_list"
            /\ log' = log \o <<LogRecord("DEBUG", "Files created in 'devices' folder",
                                         ToString(files_created_counter)),
                               LogRecord("INFO", "Total files generated in this simulation",
                                         ToString(total_files_to_generate_log))>>
            /\ UNCHANGED <<num_files, file_number>>
    /\ UNCHANGED <<simulation_data, files, reports, now, num_files_range,
                   total_files_to_generate, total_files_to_generate_log,
                   files_created_counter, data, files_moved_count, outcome, batches,
                   faults, history, simulation_data_mutex, snapshot, gui, running>>

\* for i in range(1, num_files + 1): generate_random_data(i), open, write, and
\* the append inside the with block
for_loop ==
    /\ pc = "for"
    /\ IF file_number <= num_files
       THEN \E mission \in DrawnMissions, dtype \in DrawnDeviceTypes,
               dstate \in DrawnDeviceStates :
              LET d == generate_random_data(file_number, now, mission, dtype, dstate)
              IN  /\ data' = d
                  /\ devices' = WriteFile(devices, d.filename,
                                    [data |-> d, mtime |-> now, wid |-> persisted_count + 1])
                  /\ persisted_count' = persisted_count + 1
                  /\ batch_records' = Append(batch_records, <<file_number, d, mission>>)
                  /\ simulation_data' = Append(simulation_data, d)
                  /\ snapshot' = SeenAppend(snapshot, d)
                  /\ pc' = "locked"
       ELSE /\ pc' = "while"
            /\ UNCHANGED <<data, devices, persisted_count, batch_records, simulation_data,
                           snapshot>>
    /\ UNCHANGED <<backups, reports, now, num_files_range, total_files_to_generate,
                   total_files_to_generate_log, files_created_counter, num_files,
                   file_number, files_moved_count, outcome, log, batches, faults,
                   wid_at_start, backup_before, report_writes,
                   simulation_data_mutex, gui, running>>

\* the same iteration when open(filename, "w") raises e: no file is written
\* and the record reaches neither the buffer nor the disk
for_open_fails(e) ==
    /\ pc = "for"
    /\ file_number <= num_files
    /\ Fault
    /\ SimulateExcept(e)
    /\ UNCHANGED <<simulation_data, files, reports, now, files_moved_count,
                   batches, persisted_count, backup_before,
                   simulation_data_mutex, snapshot, gui>>

\* with QMutexLocker(self.simulation_data_mutex): the thread waits until the
\* mutex is free and takes it
mutex_lock ==
    /\ pc = "locked"
    /\ simulation_data_mutex = "free"
    /\ simulation_data_mutex' = "simulate"
    /\ pc' = "append"
    /\ UNCHANGED <<simulation_data, files, reports, now, locals, files_moved_count,
                   outcome, log, batches, faults, history, snapshot, gui, running>>

\* the second append, inside the with block, and the end of the block, which
\* gives the mutex back; then the two counters and the next i
locked_append ==
    /\ pc = "append"
    /\ simulation_data' = Append(simulation_data, data)
    /\ snapshot' = SeenAppend(snapshot, data)
    /\ simulation_data_mutex' = "free"
    /\ total_files_to_generate' = total_files_to_generate - 1
    /\ files_created_counter' = files_created_counter + 1
    /\ file_number' = file_number + 1
    /\ pc' = "for"
    /\ UNCHANGED <<files, reports, now, num_files_range, total_files_to_generate_log,
                   num_files, data, files_moved_count, outcome, log, batches, faults,
                   history, gui, running>>

(* ---------------- the reports ---------------- *)
\* generate_report_filename(report_type) at time t
generate_report_filename(report_type, t) ==
    "APLSTATS-" \o report_type \o "-" \o strftime(t) \o ".csv"

\* number of records of buf that have property P
Count(buf, P(_)) == Cardinality({k \in 1..Len(buf) : P(buf[k])})

\* pd.DataFrame(buf).groupby(keys): a DataFrame of no record has no column,
\* and groupby or a column selection raises KeyError
RaisesKeyError(buf) == Len(buf) = 0

\* analyze_events: groupby(["mission", "device_status"]).size().unstack(fill_value=0),
\* a grid of the missions and the statuses that occur
EventsRows(buf) ==
    LET ms == {buf[k].mission : k \in 1..Len(buf)}
        ss == {buf[k].device_status : k \in 1..Len(buf)}
    IN  [c \in ms \X ss |->
            LET Is(r) == r.mission = c[1] /\ r.device_status = c[2]
            IN  Count(buf, Is)]

\* sort_values(ascending=False) of a set of rows with a count
RECURSIVE SortDescending(_)
SortDescending(rows) ==
    IF rows = {} THEN <<>>
    ELSE LET top == CHOOSE r \in rows : \A q \in rows : q.count <= r.count
         IN  <<top>> \o SortDescending(rows \ {top})

\* the rows manage_disconnections selects:
\* (device_status == "unknown") & (mission != "UNKN")
IsDisconnection(r) == r.device_status = "unknown" /\ r.mission # "UNKN"

\* manage_disconnections: groupby(["mission", "device_type"]).size() of the
\* selected rows, sorted
DisconnectionsRows(buf) ==
    LET sel == {k \in 1..Len(buf) : IsDisconnection(buf[k])}
        keys == {<<buf[k].mission, buf[k].device_type>> : k \in sel}
    IN  SortDescending(
            {[mission |-> c[1], device_type |-> c[2],
              count |-> Cardinality({k \in sel : buf[k].mission = c[1]
                                                 /\ buf[k].device_type = c[2]})] :
                c \in keys})

\* a consolidate_missions that selects the status "unknown" as well
InoperableOrUnknownRows(buf) ==
    LET sel == {k \in 1..Len(buf) : buf[k].device_status \in {"killed", "unknown"}}
    IN  [m \in {buf[k].mission : k \in sel} |->
            Cardinality({k \in sel : buf[k].mission = m})]

\* consolidate_missions: device_status.isin(["killed"]), groupby("mission").size()
InoperableRows(buf) ==
    LET sel == {k \in 1..Len(buf) : buf[k].device_status \in {"killed"}}
    IN  [m \in {buf[k].mission : k \in sel} |->
            Cardinality({k \in sel : buf[k].mission = m})]

\* calculate_percentages: groupby(["mission", "device_type"]).size() / len * 100,
\* each value kept as the fraction num / den
PercentagesRows(buf) ==
    LET keys == {<<buf[k].mission, buf[k].device_type>> : k \in 1..Len(buf)}
    IN  [c \in keys |->
            LET Is(r) == r.mission = c[1] /\ r.device_type = c[2]
            IN  [num |-> Count(buf, Is) * 100, den |-> Len(buf)]]

\* str(data), the content simulate writes: its length is what getsize reads
getsize(f) ==
    Len(f.data.date \o f.data.mission \o f.data.device_type
          \o f.data.device_status \o f.data.filename)

\* generate_file_list_report raises FileNotFoundError (getsize, getmtime)
\* when a record of the buffer names no file of the active area
FileMissing(buf, dir) == \E k \in 1..Len(buf) : buf[k].filename \notin DOMAIN dir

\* generate_file_list_report: one row per record of the buffer
FileListRows(buf, dir) ==
    [k \in 1..Len(buf) |->
        [filename |-> buf[k].filename, date |-> buf[k].date,
         mission |-> buf[k].mission, device_type |-> buf[k].device_type,
         device_status |-> buf[k].device_status, hash |-> buf[k].hash,
         size |-> getsize(dir[buf[k].filename]),
         last_modified |-> strftime(dir[buf[k].filename].mtime)]]

\* to_csv(generate_report_filename(kind)): the report file is created or replaced
WriteReport(kind, rows) ==
    /\ reports' = WriteFile(reports, generate_report_filename(kind, now),
                            [kind |-> kind, rows |-> rows])
    /\ report_writes' = Append(report_writes,
                               [kind |-> kind, name |-> generate_report_filename(kind, now)])

(* ---------------- simulate: the reporting step ---------------- *)
\* what no step of the reporting changes
ReportFrame ==
    UNCHANGED <<files, now, files_moved_count, batches, persisted_count, backup_before,
                simulation_data_mutex, gui>>

\* what a step of the reporting that raises nothing leaves alone
ReportGoesOn == UNCHANGED <<locals, wid_at_start, batch_records, outcome, running>>

\* self.generate_file_list_report() of simulate, before generate_reports
file_list_report ==
    /\ pc = "file_list"
    /\ IF FileMissing(simulation_data, devices)
       THEN /\ SimulateExcept("FileNotFoundError")
            /\ UNCHANGED reports
       ELSE /\ WriteReport("file_list", FileListRows(simulation_data, devices))
            /\ pc' = "analyze_events"
            /\ log' = log
            /\ ReportGoesOn
    /\ UNCHANGED <<simulation_data, snapshot, faults>>
    /\ ReportFrame

\* the same call when writing the report file raises e
file_list_report_fails(e) ==
    /\ pc = "file_list"
    /\ ~FileMissing(simulation_data, devices)
    /\ Fault
    /\ SimulateExcept(e)
    /\ UNCHANGED <<simulation_data, snapshot, reports>>
    /\ ReportFrame

\* an exception e raised inside the try statement of generate_reports: the
\* except clause logs it and the buffer is cleared next, or e leaves
\* generate_reports before the buffer is cleared and reaches simulate
ReportsExcept(e) ==
    IF e \in ReportsCaught
    THEN /\ pc' = "clear"
         /\ log' = Append(log, LogRecord("ERROR", "Error generating reports", e))
         /\ report_writes' = report_writes
         /\ ReportGoesOn
    ELSE SimulateExcept(e)

\* an aggregation that takes the first record out of the buffer it reads
AggregationConsuming(here, kind, rows, next) ==
    /\ pc = here
    /\ IF RaisesKeyError(simulation_data)
       THEN /\ ReportsExcept("KeyError")
            /\ UNCHANGED <<reports, simulation_data>>
       ELSE /\ WriteReport(kind, rows)
            /\ pc' = next
            /\ log' = log
            /\ ReportGoesOn
            /\ simulation_data' = Tail(simulation_data)
    /\ UNCHANGED <<snapshot, faults>>
    /\ ReportFrame

\* one of the four aggregations of generate_reports: at position here, the
\* report kind with rows, then position next
Aggregation(here, kind, rows, next) ==
    /\ pc = here
    /\ IF RaisesKeyError(simulation_data)
       THEN /\ ReportsExcept("KeyError")
            /\ UNCHANGED reports
       ELSE /\ WriteReport(kind, rows)
            /\ pc' = next
            /\ log' = log
            /\ ReportGoesOn
    /\ UNCHANGED <<simulation_data, snapshot, faults>>
    /\ ReportFrame

analyze_events ==
    Aggregation("analyze_events", "events", EventsRows(simulation_data),
                "manage_disconnections")

manage_disconnections ==
    Aggregation("manage_disconnections", "disconnections",
                DisconnectionsRows(simulation_data), "consolidate_missions")

consolidate_missions ==
    Aggregation("consolidate_missions", "inoperable_devices",
                InoperableRows(simulation_data), "calculate_percentages")

calculate_percentages ==
    Aggregation("calculate_percentages", "percentages",
                PercentagesRows(simulation_data), "file_list_again")

\* self.generate_file_list_report() of generate_reports, and the logging
\* call that ends the try block
file_list_again ==
    /\ pc = "file_list_again"
    /\ IF FileMissing(simulation_data, devices)
       THEN /\ ReportsExcept("FileNotFoundError")
            /\ UNCHANGED reports
       ELSE /\ WriteReport("file_list", FileListRows(simulation_data, devices))
            /\ pc' = "clear"
            /\ log' = Append(log, LogRecord("INFO", "Reports generated successfully.", ""))
            /\ ReportGoesOn
    /\ UNCHANGED <<simulation_data, snapshot, faults>>
    /\ ReportFrame

\* the positions inside the try statement of generate_reports
ReportSteps == {"analyze_events", "manage_disconnections", "consolidate_missions",
                "calculate_percentages", "file_list_again"}

\* a report of generate_reports whose file cannot be written: to_csv or
\* os.makedirs(reports_folder) raises e
report_write_fails(e) ==
    /\ pc \in ReportSteps
    /\ ~RaisesKeyError(simulation_data)
    /\ Fault
    /\ ReportsExcept(e)
    /\ UNCHANGED <<simulation_data, snapshot, reports>>
    /\ ReportFrame

\* a generate_reports that ends without emptying the buffer
buffer_kept ==
    /\ pc = "clear"
    /\ pc' = "move"
    /\ UNCHANGED <<simulation_data, snapshot, reports, report_writes, log, faults>>
    /\ ReportGoesOn
    /\ ReportFrame

\* self.simulation_data = [], the last statement of generate_reports
clear_buffer ==
    /\ pc = "clear"
    /\ simulation_data' = <<>>
    /\ snapshot' = SeenRebind(snapshot)
    /\ pc' = "move"
    /\ UNCHANGED <<reports, report_writes, log, faults>>
    /\ ReportGoesOn
    /\ ReportFrame

(* ---------------- simulate: move_files_to_backup ---------------- *)
\* the names of a set, in the order the loop visits them
RECURSIVE InOrder(_)
InOrder(names) ==
    IF names = {} THEN <<>>
    ELSE LET n == CHOOSE x \in names : TRUE IN <<n>> \o InOrder(names \ {n})

\* the logging record of one turn of the loop: except OSError, else
MoveLog(file, failing) ==
    IF file \in failing
    THEN LogRecord("ERROR", "Error moving file to backups", file)
    ELSE LogRecord("DEBUG", "Moved file to backups", file)

\* a simulate that calls move_files_to_backup before its reporting step:
\* the same relocation, after which the call goes on with the file-list report
MoveBeforeReports(failing) ==
    LET files_before_move == listdir(devices)
        moved == files_before_move \ failing
        files_after_move == files_before_move \ moved
        count == Cardinality(files_before_move) - Cardinality(files_after_move)
        order == InOrder(files_before_move)
    IN  /\ pc = "move"
        /\ backup_before' = Cardinality(listdir(backups))
        /\ backups' = MoveFiles(devices, backups, moved)
        /\ devices' = RemoveFiles(devices, moved)
        /\ files_moved_count' = count
        /\ log' = log \o [k \in 1..Len(order) |-> MoveLog(order[k], failing)]
                      \o <<LogRecord("INFO", "Moved files from 'devices' to 'backups'",
                                     ToString(count))>>
        /\ pc' = "file_list"
        /\ UNCHANGED <<simulation_data, reports, now, batches, persisted_count,
                       simulation_data_mutex, snapshot, gui, locals, outcome, running,
                       wid_at_start, batch_records, report_writes>>

\* a move_files_to_backup whose loop ends at the first shutil.move that
\* raises: no except clause inside the loop
MoveUntilFailure(failing) ==
    LET files_before_move == listdir(devices)
        moved == IF failing = {} THEN files_before_move ELSE {}
        files_after_move == files_before_move \ moved
        count == Cardinality(files_before_move) - Cardinality(files_after_move)
        order == InOrder(files_before_move)
    IN  /\ pc = "move"
        /\ backup_before' = Cardinality(listdir(backups))
        /\ backups' = MoveFiles(devices, backups, moved)
        /\ devices' = RemoveFiles(devices, moved)
        /\ files_moved_count' = count
        /\ log' = log \o [k \in 1..Len(order) |-> MoveLog(order[k], failing)]
                      \o <<LogRecord("INFO", "Moved files from 'devices' to 'backups'",
                                     ToString(count)),
                           LogRecord("INFO", "Simulation completed successfully.", "")>>
        /\ pc' = "idle"
        /\ outcome' = "returned"
        /\ result' = simulate_returns(CompletionStatus(log'))
        /\ LocalsGone
        /\ UNCHANGED <<simulation_data, reports, now, batches, persisted_count,
                       simulation_data_mutex, snapshot, gui>>

\* move_files_to_backup when shutil.move raises an OSError for the files of
\* failing, followed by the last logging call of simulate and its return
Move(failing) ==
    LET files_before_move == listdir(devices)
        moved == files_before_move \ failing
        files_after_move == files_before_move \ moved
        count == Cardinality(files_before_move) - Cardinality(files_after_move)
        order == InOrder(files_before_move)
    IN  /\ pc = "move"
        /\ backup_before' = Cardinality(listdir(backups))
        /\ backups' = MoveFiles(devices, backups, moved)
        /\ devices' = RemoveFiles(devices, moved)
        /\ files_moved_count' = count
        /\ log' = log \o [k \in 1..Len(order) |-> MoveLog(order[k], failing)]
                      \o <<LogRecord("INFO", "Moved files from 'devices' to 'backups'",
                                     ToString(count)),
                           LogRecord("INFO", "Simulation completed successfully.", "")>>
        /\ pc' = "idle"
        /\ outcome' = "returned"
        /\ result' = simulate_returns(CompletionStatus(log'))
        /\ LocalsGone
        /\ UNCHANGED <<simulation_data, reports, now, batches, persisted_count,
                       simulation_data_mutex, snapshot, gui>>

\* move_files_to_backup when every shutil.move succeeds
move_files_to_backup ==
    /\ Move({})
    /\ UNCHANGED faults

\* move_files_to_backup when shutil.move fails for some files
move_files_fail ==
    \E failing \in SUBSET listdir(devices) :
        /\ failing # {}
        /\ faults + Cardinality(failing) <= MaxFaults
        /\ faults' = faults + Cardinality(failing)
        /\ Move(failing)

\* move_files_to_backup when os.makedirs(backup_folder) or
\* os.listdir(devices_folder) raises e, outside the try statement of the loop
move_setup_fails(e) ==
    /\ pc = "move"
    /\ Fault
    /\ SimulateExcept(e)
    /\ UNCHANGED <<simulation_data, files, reports, now, files_moved_count,
                   batches, persisted_count, backup_before,
                   simulation_data_mutex, snapshot, gui>>

(* ---------------- the environment ---------------- *)
\* one second passes
Tick ==
    /\ now < MaxClock
    /\ now' = now + 1
    /\ UNCHANGED <<simulation_data, files, reports, pc, locals, files_moved_count,
                   outcome, log, batches, faults, history,
                   simulation_data_mutex, snapshot, gui, running>>

\* the program is started again on the same data folder, after simulate
\* returned or an exception ended the process: Apollo11Simulation.__init__
\* (the data folder and the log file are kept; the new process has a seed
\* of str hashes of its own)
Restart ==
    /\ pc \in {"idle", "crashed"}
    /\ simulation_data' = <<>>
    /\ pc' = "idle"
    /\ simulation_data_mutex' = "free"
    /\ snapshot' = NoSnapshot
    /\ observer_pc' = "out"
    /\ hash_seed' \in 0..MaxSeed
    /\ UNCHANGED <<files, reports, now, locals, files_moved_count, outcome, log,
                   batches, faults, history, timer_fired_inside, draft_record, running>>

\* one turn of the loops of simulate of the draft, for mission in
\* self.missions, for i in range(1, num_files + 1): the call of
\* generate_random_data(mission); the draft is a program of its own and
\* runs where the program of apolo_11.py does not
draft_simulate ==
    /\ pc = "idle"
    /\ batches = 0
    /\ \E mission_arg \in Elements(missions), mission \in Elements(missions),
          dtype \in Elements(device_types), dstate \in Elements(device_states) :
          draft_record' = [taken |-> TRUE, mission |-> mission,
                           data |-> draft_generate_random_data(mission_arg, now, mission,
                                                               dtype, dstate)]
    /\ UNCHANGED <<simulation_data, files, reports, now, pc, locals, files_moved_count,
                   outcome, log, batches, faults, history, simulation_data_mutex,
                   snapshot, observer_pc, timer_fired_inside, hash_seed, running>>

\* the kind of report each aggregation method writes
KindAt == [analyze_events |-> "events",
           manage_disconnections |-> "disconnections",
           consolidate_missions |-> "inoperable_devices",
           calculate_percentages |-> "percentages"]

\* the kinds of report written by the running call so far
WrittenKinds == {report_writes[k].kind : k \in 1..Len(report_writes)}

\* a caller that runs the four aggregation methods by itself on the buffer a
\* generation loop filled, each once, in an order of its choice: the call
\* of the method of position p
aggregation_call(p) ==
    /\ pc \in {"file_list"} \cup ReportSteps
    /\ p \in DOMAIN KindAt
    /\ p # pc
    /\ KindAt[p] \notin WrittenKinds
    /\ pc' = p
    /\ UNCHANGED <<simulation_data, files, reports, now, locals, files_moved_count,
                   outcome, log, batches, faults, history, simulation_data_mutex,
                   snapshot, gui, running>>

\* the number of generate_reports() calls that went through their try
\* statement, as the logging records l tell
CompletedRuns(l) ==
    Cardinality({k \in 1..Len(l) : l[k].msg \in {"Reports generated successfully.",
                                                 "Error generating reports"}})

\* a caller that runs generate_reports() by itself on the buffer a
\* generation loop filled, and once more when the first call has returned
generate_reports_call ==
    /\ pc \in {"file_list", "move"}
    /\ pc = "file_list" => CompletedRuns(log) = 0
    /\ pc = "move" => CompletedRuns(log) = 1
    /\ pc' = "analyze_events"
    /\ UNCHANGED <<simulation_data, files, reports, now, locals, files_moved_count,
                   outcome, log, batches, faults, history, simulation_data_mutex,
                   snapshot, gui, running>>

(* ---------------- DashboardWindow: the timer and the thread ---------------- *)
\* self.simulation_thread.isRunning(): run(), and simulate() inside it, is
\* under way
isRunning == inside > 0

\* a start_simulation that starts a new SimulationThread at every timeout
QThread_start_anew(is_running) == TRUE

\* self.simulation_thread.start(), the one QThread object made in __init__:
\* run() begins, unless the thread is running, when start() does nothing
QThread_start(is_running) == ~is_running

\* start_simulation, the slot of timer.timeout: the thread is started and
\* its run() calls simulate(); a timeout that comes while simulate() is
\* under way starts nothing
start_simulation(range) ==
    /\ pc # "crashed"
    /\ IF ~isRunning
       THEN QThread_start(isRunning) /\ simulate_call(range)
       ELSE /\ timer_fired_inside' = TRUE
            /\ inside' = IF QThread_start(isRunning) THEN inside + 1 ELSE inside
            /\ UNCHANGED <<simulation_data, files, reports, now, pc, locals,
                           files_moved_count, outcome, log, batches, faults, history,
                           simulation_data_mutex, snapshot, observer_pc, draft_record,
                           hash_seed,
                           result>>

(* ---------------- the observer thread ---------------- *)
\* get_simulation_data_copy() called from another thread: QMutexLocker waits
\* until the mutex is free and takes it
get_simulation_data_copy_lock ==
    /\ pc # "crashed"
    /\ observer_pc = "out"
    /\ simulation_data_mutex = "free"
    /\ simulation_data_mutex' = "observer"
    /\ observer_pc' = "copy"
    /\ UNCHANGED <<simulation_data, files, reports, now, pc, locals, files_moved_count,
                   outcome, log, batches, faults, history, snapshot,
                   aside, running>>

\* return self.simulation_data.copy(), and the end of the with block, which
\* gives the mutex back
get_simulation_data_copy ==
    /\ observer_pc = "copy"
    /\ snapshot' = list_copy(simulation_data)
    /\ simulation_data_mutex' = "free"
    /\ observer_pc' = "out"
    /\ UNCHANGED <<simulation_data, files, reports, now, pc, locals, files_moved_count,
                   outcome, log, batches, faults, history, aside, running>>

\* the program started again in an environment that fixes the seed of str
\* hashes (PYTHONHASHSEED set): every process has the seed of the first
RestartSameSeed == Restart /\ hash_seed' = hash_seed

(* ---------------- specifications ---------------- *)
\* the steps of a running simulate() in which no I/O call raises
Steps ==
    \/ while_loop
    \/ for_loop
    \/ mutex_lock
    \/ locked_append
    \/ file_list_report
    \/ analyze_events
    \/ manage_disconnections
    \/ consolidate_missions
    \/ calculate_percentages
    \/ file_list_again
    \/ clear_buffer
    \/ move_files_to_backup

\* the steps in which an I/O call raises
FailingSteps ==
    \/ \E range \in Ranges, e \in IOErrors : simulate_makedirs_fails(range, e)
    \/ \E e \in IOErrors : for_open_fails(e)
    \/ \E e \in IOErrors : file_list_report_fails(e)
    \/ \E e \in IOErrors : report_write_fails(e)
    \/ move_files_fail
    \/ \E e \in IOErrors : move_setup_fails(e)

\* batches of any configured range, no I/O failure, the clock advancing at
\* any moment, the seed of str hashes fixed
Next ==
    \/ \E range \in Ranges : simulate_call(range)
    \/ Steps
    \/ Tick
    \/ RestartSameSeed

Spec == Init /\ [][Next]_vars

\* batches of any configured range with I/O failures; a batch takes less
\* than a second, the clock advances between batches
NextFaults ==
    \/ \E range \in Ranges : simulate_call(range)
    \/ Steps
    \/ FailingSteps
    \/ (pc \in {"idle", "crashed"} /\ Tick)
    \/ RestartSameSeed

SpecFaults == Init /\ [][NextFaults]_vars

\* runs of the program one after another, each process with a seed of str
\* hashes of its own; no I/O failure, the clock advances between batches
NextRuns ==
    \/ \E range \in Ranges : simulate_call(range)
    \/ Steps
    \/ (pc \in {"idle", "crashed"} /\ Tick)
    \/ Restart

SpecRuns == Init /\ [][NextRuns]_vars

\* one batch of range (5, 5) on an empty buffer and empty areas, no I/O failure
NextE2E ==
    \/ (batches = 0 /\ simulate_call(<<E2EFiles, E2EFiles>>))
    \/ Steps
    \/ Tick

SpecE2E == Init /\ [][NextE2E]_vars

\* one batch of any configured range, no I/O failure, and a second thread
\* that calls get_simulation_data_copy() at any moment, any number of times
NextObserver ==
    \/ (batches = 0 /\ \E range \in Ranges : simulate_call(range))
    \/ Steps
    \/ get_simulation_data_copy_lock
    \/ get_simulation_data_copy

SpecObserver == Init /\ [][NextObserver]_vars

\* a run of one of the two programs of the repository: one batch of
\* apolo_11.py of any configured range, or the generation loop of the draft
NextEither ==
    \/ (batches = 0 /\ ~draft_record.taken /\ \E range \in Ranges : simulate_call(range))
    \/ Steps
    \/ draft_simulate

SpecEither == Init /\ [][NextEither]_vars

\* generate_reports() called twice in succession on the buffer of one
\* generation loop, no record generated in between, no I/O failure
NextTwice ==
    \/ (batches = 0 /\ \E range \in Ranges : simulate_call(range))
    \/ while_loop
    \/ for_loop
    \/ mutex_lock
    \/ locked_append
    \/ generate_reports_call
    \/ analyze_events
    \/ manage_disconnections
    \/ consolidate_missions
    \/ calculate_percentages
    \/ file_list_again
    \/ clear_buffer
    \/ Tick

SpecTwice == Init /\ [][NextTwice]_vars

\* the four aggregation methods called in any order, each once, on the
\* buffer of one generation loop, no I/O failure
NextAnyOrder ==
    \/ (batches = 0 /\ \E range \in Ranges : simulate_call(range))
    \/ while_loop
    \/ for_loop
    \/ mutex_lock
    \/ locked_append
    \/ \E p \in DOMAIN KindAt : aggregation_call(p)
    \/ (pc \in DOMAIN KindAt /\ KindAt[pc] \notin WrittenKinds /\ analyze_events)
    \/ (pc \in DOMAIN KindAt /\ KindAt[pc] \notin WrittenKinds /\ manage_disconnections)
    \/ (pc \in DOMAIN KindAt /\ KindAt[pc] \notin WrittenKinds /\ consolidate_missions)
    \/ (pc \in DOMAIN KindAt /\ KindAt[pc] \notin WrittenKinds /\ calculate_percentages)

SpecAnyOrder == Init /\ [][NextAnyOrder]_vars

\* the generation loop of one simulate() of any configured range, no I/O
\* failure; the thread that runs it goes on as long as it has a step to take
NextLoop ==
    \/ (batches = 0 /\ \E range \in Ranges : simulate_call(range))
    \/ while_loop
    \/ for_loop
    \/ mutex_lock
    \/ locked_append

SpecLoop ==
    /\ Init
    /\ [][NextLoop]_vars
    /\ WF_vars(while_loop \/ for_loop \/ mutex_lock \/ locked_append)

\* the dashboard: the timer fires at any moment, also while a batch is
\* under way; no I/O failure
NextTimer ==
    \/ \E range \in Ranges : start_simulation(range)
    \/ Steps
    \/ Tick
    \/ RestartSameSeed

SpecTimer == Init /\ [][NextTimer]_vars

(* ---------------- properties ---------------- *)
\* the sum of the values of the function f
RECURSIVE SumOver(_, _)
SumOver(f, S) ==
    IF S = {} THEN 0
    ELSE LET x == CHOOSE y \in S : TRUE IN f[x] + SumOver(f, S \ {x})

\* the positions of simulate between the end of the generation loop and
\* move_files_to_backup
ReportingPositions == {"file_list", "clear"} \cup ReportSteps

\* the files of the active area written by the running simulate()
BatchFiles == {f \in DOMAIN devices : devices[f].wid > wid_at_start}

\* a mission label generate_random_data makes for the sentinel mission UNKN
IsSentinelLabel(m) == \E t \in 0..MaxClock : m = "UNKNOWN-" \o strftime(t)

\* the last simulate() went through move_files_to_backup and returned
MoveReturned ==
    /\ outcome = "returned"
    /\ Len(log) > 0
    /\ log[Len(log)].msg = "Simulation completed successfully."

\* C1: with range (5, 5) on an empty buffer and empty areas and no I/O
\* failure, the active area holds exactly 5 files before archival, the backup
\* area exactly 5 files after it, and the file-list report has exactly 5 rows.
C1_EndToEndFive ==
    /\ pc \in ReportingPositions \cup {"move"}
          => Cardinality(listdir(devices)) = E2EFiles
    /\ MoveReturned => Cardinality(listdir(backups)) = E2EFiles
    /\ \A n \in DOMAIN reports :
          reports[n].kind = "file_list" => Len(reports[n].rows) = E2EFiles

\* C2: for a range with 1 <= min <= max, when the generation loop ends
\* without I/O failure, the number of files of the active area written by
\* this batch equals the drawn target total.
C2_GeneratedEqualsTarget ==
    (pc = "file_list" /\ num_files_range[1] >= 1)
        => Cardinality(BatchFiles) = total_files_to_generate_log

\* C3: within one batch the sequence numbers passed to generate_random_data
\* are strictly increasing, and the file names of two records generated in
\* the same batch differ.
C3_SequenceNumbersIncrease ==
    \A j, k \in 1..Len(batch_records) :
        j < k => /\ batch_records[j][1] < batch_records[k][1]
                 /\ batch_records[j][2].filename # batch_records[k][2].filename

\* C4: each generated record is in the buffer exactly once, and the counts
\* of the events-by-status report add up to the number of records generated
\* in the batch.
C4_EventsSumIsBatchSize ==
    pc = "manage_disconnections" =>
        LET rows == reports[report_writes[Len(report_writes)].name].rows
        IN  /\ Len(simulation_data) = files_created_counter
            /\ SumOver(rows, DOMAIN rows) = files_created_counter

\* C5: no disconnections report has a row whose mission is the label of the
\* sentinel mission.
C5_NoSentinelDisconnection ==
    \A n \in DOMAIN reports :
        reports[n].kind = "disconnections" =>
            \A k \in 1..Len(reports[n].rows) :
                ~IsSentinelLabel(reports[n].rows[k].mission)

\* C6: when the buffer holds no record, the reporting step raises no error
\* and the status-percentages report it writes is empty.
C6_EmptyBatchReports ==
    [][(pc \in ReportSteps /\ Len(simulation_data) = 0)
          => /\ pc' # "crashed"
             /\ pc = "calculate_percentages" /\ pc' # pc
                  => /\ Len(report_writes') = Len(report_writes) + 1
                     /\ report_writes'[Len(report_writes')].kind = "percentages"
                     /\ DOMAIN reports'[report_writes'[Len(report_writes')].name].rows = {}
       ]_vars

\* C7: after move_files_to_backup the active area holds no file and the
\* backup area holds files_moved_count more files than before the call.
C7_ArchiveCounts ==
    MoveReturned =>
        /\ Cardinality(listdir(devices)) = 0
        /\ Cardinality(listdir(backups)) = backup_before + files_moved_count

\* C8: every file simulate has written is present exactly once, in the
\* active area or in the backup area.
C8_EveryFileOnce ==
    \A w \in 1..persisted_count :
        Cardinality({f \in DOMAIN devices : devices[f].wid = w})
          + Cardinality({f \in DOMAIN backups : backups[f].wid = w}) = 1

\* C9: when simulate returns from a batch that reached the reporting step,
\* with every report written or with a report failed, the buffer is empty.
C9_BufferClearedAfterReporting ==
    [][(pc \in ReportingPositions \cup {"move"} /\ pc' = "idle")
          => simulation_data' = <<>>]_vars

\* C10: no failure of directory creation, persistence, report generation or
\* relocation leaves simulate as an exception.
C10_AlwaysReturns == outcome # "raised"

\* C11: the list get_simulation_data_copy() returned is a copy made at one
\* moment: it is the buffer as it was when the copy was made, the copy is
\* never made while simulate holds the mutex for its append, each of its
\* items is a whole record generated by the batch, and no later append to
\* the buffer and no clearing of the buffer changes it.
C11_SnapshotIsACopy ==
    [][/\ (snapshot.taken /\ observer_pc = "out") => snapshot'.items = snapshot.items
       /\ (observer_pc = "copy" /\ observer_pc' = "out")
             => /\ pc # "append"
                /\ snapshot'.items = simulation_data
                /\ \A k \in 1..Len(snapshot'.items) :
                      \E j \in 1..Len(batch_records) :
                          snapshot'.items[k] = batch_records[j][2]
      ]_vars

\* a snapshot of a buffer that held records, and the buffer has changed since
C11_SnapshotOutlived ==
    /\ snapshot.taken
    /\ snapshot.items # <<>>
    /\ Len(simulation_data) # Len(snapshot.items)

\* what C12 says of a record d generated when random.choice drew mission
RecordInvariant(d, mission) ==
    /\ d.hash # None <=> mission # "UNKN"
    /\ (d.device_type = "unknown" /\ d.device_status = "unknown") <=> mission = "UNKN"

ReportOrder == <<"file_list", "events", "disconnections", "inoperable_devices",
                 "percentages">>

\* C13: the reports a batch writes are, in this order, the file-list report,
\* the events, disconnections, inoperable-devices and percentages reports,
\* and no report is generated after them.
C13_ReportsInFixedOrder ==
    /\ Len(report_writes) <= Len(ReportOrder)
    /\ \A k \in 1..Len(report_writes) :
          k <= Len(ReportOrder) => report_writes[k].kind = ReportOrder[k]

\* the logging records l hold the record that ends move_files_to_backup
MoveLogged(l) ==
    \E k \in 1..Len(l) : l[k].msg = "Moved files from 'devices' to 'backups'"

\* C14: whenever simulate generates a file-list report, move_files_to_backup
\* has not started in this call: nothing of it is logged, every file the
\* buffer names is in the active area, and no file of this batch is in the
\* backup area.
C14_FileListBeforeMove ==
    [][(/\ Len(report_writes') = Len(report_writes) + 1
        /\ report_writes'[Len(report_writes')].kind = "file_list")
          => /\ ~MoveLogged(log')
             /\ \A k \in 1..Len(simulation_data) :
                   simulation_data[k].filename \in listdir(devices)
             /\ \A f \in listdir(backups) : backups[f].wid <= wid_at_start
      ]_vars

\* both file-list reports of a batch with files are generated, and the
\* relocation is about to start with the files in the active area
C14_ReportsDoneFilesActive ==
    /\ pc = "move"
    /\ Cardinality({k \in 1..Len(report_writes) : report_writes[k].kind = "file_list"}) = 2
    /\ BatchFiles # {}

\* C15: a batch writes each kind of report once, and no report file is
\* written a second time.
C15_EachReportOnce ==
    \A j, k \in 1..Len(report_writes) :
        j < k => /\ report_writes[j].kind # report_writes[k].kind
                 /\ report_writes[j].name # report_writes[k].name

\* C16: when generate_reports() has run on a buffer and is run again with no
\* record generated in between, the second run raises nothing and, once it
\* has returned, the two runs have written two sets of report files whose
\* names differ and whose rows are the same.
C16_ReportsIdempotent ==
    (\E k \in 1..Len(log) : log[k].msg = "Reports generated successfully.")
        => /\ pc # "crashed"
           /\ (pc = "move" /\ CompletedRuns(log) = 2)
                 => /\ Len(report_writes) = 10
                    /\ \A k \in 1..5 :
                          /\ report_writes[k].kind = report_writes[k + 5].kind
                          /\ report_writes[k].name # report_writes[k + 5].name
                          /\ reports[report_writes[k].name].rows
                                = reports[report_writes[k + 5].name].rows

\* C17: when open() raises while simulate persists a record, the call ends
\* there: the error is logged, and no report, no file of either area and
\* no record of the buffer is changed.
C17_PersistFailureAborts ==
    [][(pc = "for" /\ pc' \in {"idle", "crashed"})
          => /\ Len(log') = Len(log) + 1
             /\ log'[Len(log')].level = "ERROR"
             /\ reports' = reports
             /\ devices' = devices
             /\ backups' = backups
             /\ simulation_data' = simulation_data
      ]_vars

\* the logging records l hold the error record of the relocation of file f
MoveErrorLogged(l, f) ==
    \E k \in 1..Len(l) : l[k] = LogRecord("ERROR", "Error moving file to backups", f)

\* C18: when move_files_to_backup returns, every file that was in the active
\* area at its start is in the backup area, or its relocation raised, the
\* error is logged and the file is still in the active area; the files left
\* are as many as the relocations that raised.
C18_FailedMoveSkipped ==
    [][(pc = "move" /\ pc' = "idle" /\ MoveLogged(log'))
          => /\ \A f \in listdir(devices) :
                   \/ /\ f \in listdir(backups')
                      /\ backups'[f] = devices[f]
                      /\ f \notin listdir(devices')
                   \/ /\ f \in listdir(devices')
                      /\ devices'[f] = devices[f]
                      /\ MoveErrorLogged(log', f)
             /\ Cardinality(listdir(devices')) = faults' - faults
      ]_vars

\* move_files_to_backup returned after one relocation raised and another
\* file was moved
C18_OneSkippedOneMoved ==
    /\ MoveReturned
    /\ listdir(devices) # {}
    /\ files_moved_count > 0
    /\ \E f \in listdir(devices) : MoveErrorLogged(log, f)

C20_OneBatchAtATime ==
    /\ inside <= 1
    /\ inside = 1 <=> pc \notin {"idle", "crashed"}

\* the timer fired while simulate() was under way, and the batch goes on
C20_TimerFiredInside ==
    /\ timer_fired_inside
    /\ inside = 1
    /\ pc \in ReportingPositions

\* the rows the report of a kind has for the buffer buf
RowsOf(kind, buf) ==
    CASE kind = "events" -> EventsRows(buf)
      [] kind = "disconnections" -> DisconnectionsRows(buf)
      [] kind = "inoperable_devices" -> InoperableRows(buf)
      [] kind = "percentages" -> PercentagesRows(buf)

\* C21: no aggregation changes the buffer, and in whatever order the four
\* are run over a buffer, each report written has the rows its kind has
\* for that buffer.
C21_AggregationsLeaveBuffer ==
    [][/\ pc \in DOMAIN KindAt => simulation_data' = simulation_data
       /\ \A k \in 1..Len(report_writes) :
             report_writes[k].kind \in {KindAt[p] : p \in DOMAIN KindAt}
               => reports[report_writes[k].name].rows
                    = RowsOf(report_writes[k].kind, simulation_data)
      ]_vars

\* the four reports of a buffer with records are written, the percentages
\* report first and the events report last
C21_ReverseOrderDone ==
    /\ Len(report_writes) = 4
    /\ report_writes[1].kind = "percentages"
    /\ report_writes[4].kind = "events"
    /\ simulation_data # <<>>

\* the number of records of the buffer of mission m and status "killed"
Killed(m) ==
    Cardinality({k \in 1..Len(simulation_data) :
                    /\ simulation_data[k].mission = m
                    /\ simulation_data[k].device_status = "killed"})

\* C22: the inoperable-devices report just written has a row for mission m
\* with count k exactly when k > 0 records of the buffer have mission m and
\* status "killed"; when every mission the batch drew is the sentinel, the
\* report has no row.
C22_InoperableRows ==
    (pc = "calculate_percentages" /\ Len(report_writes) > 0
        /\ report_writes[Len(report_writes)].kind = "inoperable_devices") =>
        LET rows == reports[report_writes[Len(report_writes)].name].rows
            ms == DOMAIN rows \cup {simulation_data[k].mission : k \in 1..Len(simulation_data)}
        IN  /\ \A m \in ms : m \in DOMAIN rows <=> Killed(m) > 0
            /\ \A m \in DOMAIN rows : rows[m] = Killed(m)
            /\ (\A k \in 1..Len(batch_records) : batch_records[k][3] = "UNKN")
                  => DOMAIN rows = {}

\* an inoperable-devices report of a batch of the sentinel only, and so of
\* no row, is written
C22_SentinelOnlyReported ==
    /\ pc = "calculate_percentages"
    /\ Len(batch_records) > 0
    /\ \A k \in 1..Len(batch_records) : batch_records[k][3] = "UNKN"
    /\ report_writes[Len(report_writes)].kind = "inoperable_devices"
    /\ DOMAIN reports[report_writes[Len(report_writes)].name].rows = {}

\* the four fields generate_hash reads
HashedFields(d) == <<d.date, d.mission, d.device_type, d.device_status>>

\* C23: two records of a real mission generated in one run of the program
\* (the buffer holds records of the running process only) that agree on
\* date, mission, device_type and device_status have the same hash, and
\* the hash of a record of a real mission is present.
C23_HashIsAFunction ==
    \A j, k \in 1..Len(simulation_data) :
        (/\ ~IsSentinelLabel(simulation_data[j].mission)
         /\ HashedFields(simulation_data[j]) = HashedFields(simulation_data[k]))
            => /\ simulation_data[j].hash # None
               /\ simulation_data[j].hash = simulation_data[k].hash

\* two records of a real mission, of two files, that agree on the four fields
C23_TwoRecordsSameFields ==
    \E j, k \in 1..Len(simulation_data) :
        /\ ~IsSentinelLabel(simulation_data[j].mission)
        /\ simulation_data[j].filename # simulation_data[k].filename
        /\ HashedFields(simulation_data[j]) = HashedFields(simulation_data[k])

\* the positions of simulate inside its generation loop
LoopPositions == {"while", "for", "locked", "append"}

\* C24: each sub-batch size is the smaller of the remaining total and a draw
\* from [min, max]; the remaining total is never negative and is the drawn
\* total less the records persisted by this call; the loop is left exactly
\* when the remaining total is 0.
C24_SubBatchesCapped ==
    [][/\ (pc = "while" /\ pc' = "for")
             => /\ total_files_to_generate > 0
                /\ \E r \in num_files_range[1]..num_files_range[2] :
                      \/ (r <= total_files_to_generate /\ num_files' = r)
                      \/ (r > total_files_to_generate /\ num_files' = total_files_to_generate)
       /\ (pc = "while" /\ pc' = "file_list") => total_files_to_generate = 0
       /\ (pc = "while" /\ total_files_to_generate = 0) => pc' \in {"while", "file_list"}
       /\ pc \in LoopPositions
             => /\ total_files_to_generate >= 0
                /\ total_files_to_generate
                     = total_files_to_generate_log - files_created_counter
                /\ persisted_count - wid_at_start
                     = files_created_counter + (IF pc \in {"locked", "append"} THEN 1 ELSE 0)
      ]_vars

\* a second sub-batch of a batch is under way
C24_SecondSubBatch ==
    /\ pc = "for"
    /\ file_number = 1
    /\ files_created_counter >= 1
    /\ total_files_to_generate >= 1

\* C25, as stated: for every range with 0 <= min <= max, the generation
\* loop of a simulate() that goes on is left at last, whatever the draws.
C25_LoopTerminates ==
    [](pc \in LoopPositions => <>(pc = "file_list"))

\* C25, as amended: for every range with 1 <= min <= max, and for the
\* range (0, 0), the generation loop of a simulate() that goes on is left
\* at last, whatever the draws.
C25_LoopTerminatesFromOne ==
    []((pc \in LoopPositions /\ (num_files_range[1] >= 1 \/ num_files_range[2] = 0))
          => <>(pc = "file_list"))

\* the loop of a batch of two sub-batches, of a range with min >= 1, is left
C25_LoopLeft ==
    /\ pc = "file_list"
    /\ num_files_range[1] >= 1
    /\ total_files_to_generate_log = 2
    /\ num_files = 1


(* ---------------- C26: the buffer and its mutex ---------------- *)
\* C26: every step that changes the buffer (an append of simulate, the
\* clear of generate_reports) is taken while the thread of simulate() holds
\* simulation_data_mutex, so none is taken while get_simulation_data_copy()
\* is inside its with block.
C26_WritesUnderMutex ==
    [][simulation_data' # simulation_data => simulation_data_mutex = "simulate"]_vars


(* ---------------- C27: the buffer between calls ---------------- *)
\* C27: whenever simulate() is called on the instance, after calls that
\* returned normally or after calls that failed, the buffer is empty.
C27_EmptyAtEveryCall ==
    [][batches' = batches + 1 => simulation_data = <<>>]_vars


(* ---------------- C28: the file list and the active area ---------------- *)
\* C28: whenever generate_file_list_report is about to run, in simulate or
\* in generate_reports, in a first call or after calls that returned or
\* failed, every record of the buffer names a file of the active area.
C28_FileListFindsFiles ==
    pc \in {"file_list", "file_list_again"} => ~FileMissing(simulation_data, devices)

\* the file list of a call is about to run on a buffer that still holds the
\* records of an earlier call that failed
C28_FileListAfterFailedCall ==
    /\ pc = "file_list"
    /\ batches = 2
    /\ faults = 1
    /\ Len(simulation_data) > 2 * Len(batch_records)

====
